---- MODULE Spec2Model ----
(***************************************************************************)
(* A model of the ray tracer of src/ofApp.h and src/ofApp.cpp: the         *)
(* primitives' intersect methods, the nearest-hit loop and the shading     *)
(* pipeline of ofApp, and the event handlers that drive them.              *)
(*                                                                         *)
(* Numbers.  The program computes in float.  The model computes in fixed   *)
(* point: a length or a coordinate x is the integer x * PS, a component of *)
(* a unit vector, a cosine or an intensity y is the integer y * US.  A     *)
(* colour channel is an integer 0..255 as in ofColor.  Division truncates  *)
(* toward zero.                                                            *)
(***************************************************************************)
EXTENDS Integers, Sequences, FiniteSets

\* fixed-point resolution of a length (float world coordinate)
PS == 100
\* fixed-point resolution of a unit-vector component, cosine or intensity
US == 1000

-----------------------------------------------------------------------------
(* Scalar arithmetic *)

Abs(x) == IF x < 0 THEN -x ELSE x

Min2(a, b) == IF a < b THEN a ELSE b

Max2(a, b) == IF a > b THEN a ELSE b

\* float division a / b, truncated toward zero
Div(a, b) ==
  IF (a >= 0) = (b > 0) THEN Abs(a) \div Abs(b) ELSE -(Abs(a) \div Abs(b))

RECURSIVE SqrtSearch(_, _, _)
SqrtSearch(n, lo, hi) ==
  IF lo >= hi THEN lo
  ELSE LET mid == (lo + hi + 1) \div 2
       IN IF mid * mid <= n THEN SqrtSearch(n, mid, hi)
                            ELSE SqrtSearch(n, lo, mid - 1)

\* sqrt(n), rounded down
ISqrt(n) == IF n <= 0 THEN 0 ELSE SqrtSearch(n, 0, Min2(n, 46340))

-----------------------------------------------------------------------------
(* glm::vec3 *)

\* glm::vec3(x, y, z) of a position given in world units
Vec3(x, y, z) == <<x * PS, y * PS, z * PS>>

\* glm::vec3(x, y, z) of a direction given by unit components
Dir3(x, y, z) == <<x * US, y * US, z * US>>

VAdd(a, b) == <<a[1] + b[1], a[2] + b[2], a[3] + b[3]>>

VSub(a, b) == <<a[1] - b[1], a[2] - b[2], a[3] - b[3]>>

\* v * (num / den)
VScale(v, num, den) ==
  <<Div(v[1] * num, den), Div(v[2] * num, den), Div(v[3] * num, den)>>

Dot(a, b) == a[1] * b[1] + a[2] * b[2] + a[3] * b[3]

Cross(a, b) ==
  <<a[2] * b[3] - a[3] * b[2], a[3] * b[1] - a[1] * b[3],
    a[1] * b[2] - a[2] * b[1]>>

MaxAbs(v) == Max2(Abs(v[1]), Max2(Abs(v[2]), Abs(v[3])))

\* glm::length(v), in the unit of v.  A long vector is measured in a coarser
\* unit (the float exponent) so that the square stays in range.
Length(v) ==
  LET k == (MaxAbs(v) \div 20000) + 1
      w == VScale(v, 1, k)
  IN k * ISqrt(Dot(w, w))

\* glm::distance(a, b)
Distance(a, b) == Length(VSub(a, b))

\* glm::normalize(v): the unit vector of v, components scaled by US.
\* glm divides by a zero length (NaN components); the model yields zero.
Normalize(v) ==
  LET k == (MaxAbs(v) \div 20000) + 1
      w == VScale(v, 1, k)
      len == ISqrt(Dot(w, w))
  IN IF len = 0 THEN <<0, 0, 0>> ELSE VScale(w, US, len)

\* dot(a, b) of two vectors scaled by US, scaled by US
UDot(a, b) == Div(Dot(a, b), US)

-----------------------------------------------------------------------------
(* ofColor: three 8-bit channels *)

black == <<0, 0, 0>>

darkBlue == <<0, 0, 139>>

purple == <<128, 0, 128>>

lightGray == <<211, 211, 211>>

grey == <<128, 128, 128>>

Colors == {black, darkBlue, purple, lightGray, grey}

\* ofColor * float: the factor v / US is clamped to [0, 1], each channel is
\* multiplied and truncated to its 8 bits
ColorMul(c, v) ==
  LET f == Max2(0, Min2(v, US))
  IN <<Div(c[1] * f, US), Div(c[2] * f, US), Div(c[3] * f, US)>>

\* ofColor + ofColor (and +=): channel sums, clamped to 255
ColorAdd(a, b) ==
  <<Min2(255, a[1] + b[1]), Min2(255, a[2] + b[2]), Min2(255, a[3] + b[3])>>

-----------------------------------------------------------------------------
(* Ray *)

\* Ray(p, d)
Ray(p, d) == [p |-> p, d |-> d]

\* Ray::evalPoint(t) = p + t * d, t a length along a direction scaled by US
evalPoint(ray, t) == VAdd(ray.p, VScale(ray.d, t, US))

-----------------------------------------------------------------------------
(* glm/gtx/intersect.hpp, as called by Plane::intersect, Sphere::intersect  *)
(* and ofApp::spotLightLambert.  An operator that ends in a call of the    *)
(* next one hands it the values the function has computed so far.          *)

\* intersectRayPlane, from d = dot(dir, planeNormal) and
\* n = dot(planeOrig - orig, planeNormal): the distance n / d if it is > 0
rayPlaneAt(d, n) ==
  IF d # 0 /\ n # 0 /\ ((n > 0) = (d > 0))
  THEN [hit |-> TRUE, dist |-> Div(n * US, d)]
  ELSE [hit |-> FALSE, dist |-> 0]

\* glm::intersectRayPlane(orig, dir, planeOrig, planeNormal, dist): false
\* when dir is parallel to the plane or the plane lies behind orig
intersectRayPlane(orig, dir, planeOrig, planeNormal) ==
  rayPlaneAt(UDot(dir, planeNormal),
             UDot(VSub(planeOrig, orig), planeNormal))

\* intersectRaySphere, the hit at pos: the outputs it writes
raySphereHit(sphereCenter, sphereRadius, pos) ==
  [hit |-> TRUE, position |-> pos,
   normal |-> VScale(VSub(pos, sphereCenter), US, sphereRadius)]

\* intersectionDistance = t0 > t1 + Epsilon ? t0 - t1 : t0 + t1
raySphereDistance(t0, t1) == IF t0 > t1 THEN t0 - t1 ELSE t0 + t1

\* intersectRaySphere, from the distance dist along the ray: a hit if > 0
raySphereAt(rayStarting, dir, sphereCenter, sphereRadius, ipos, inorm, dist) ==
  IF dist > 0
  THEN raySphereHit(sphereCenter, sphereRadius,
                    VAdd(rayStarting, VScale(dir, dist, US)))
  ELSE [hit |-> FALSE, position |-> ipos, normal |-> inorm]

\* intersectRaySphere, from t0 = dot(diff, dir) and the square dSquared of
\* the distance of the centre from the ray's line
raySphereRoots(rayStarting, dir, sphereCenter, sphereRadius, ipos, inorm, t0, dSquared) ==
  IF dSquared > sphereRadius * sphereRadius
  THEN [hit |-> FALSE, position |-> ipos, normal |-> inorm]
  ELSE raySphereAt(rayStarting, dir, sphereCenter, sphereRadius, ipos, inorm,
         raySphereDistance(t0,
           ISqrt(sphereRadius * sphereRadius - dSquared)))

\* |c|^2 of the vector c
Length2(c) == Dot(c, c)

\* intersectRaySphere, from diff = sphereCenter - rayStarting.  dSquared is
\* taken from the cross product (glm subtracts t0^2 from |diff|^2, the same
\* quantity).
raySphereFrom(rayStarting, dir, sphereCenter, sphereRadius, ipos, inorm, diff) ==
  raySphereRoots(rayStarting, dir, sphereCenter, sphereRadius, ipos, inorm,
                 UDot(diff, dir), Length2(VScale(Cross(diff, dir), 1, US)))

\* glm::intersectRaySphere(rayStarting, rayNormalizedDirection, sphereCenter,
\* sphereRadius, intersectionPosition, intersectionNormal): the two outputs
\* (ipos, inorm on entry) are written on a hit only
intersectRaySphere(rayStarting, dir, sphereCenter, sphereRadius, ipos, inorm) ==
  raySphereFrom(rayStarting, dir, sphereCenter, sphereRadius, ipos, inorm,
                VSub(sphereCenter, rayStarting))

-----------------------------------------------------------------------------
(* SceneObject, Sphere, Plane *)

\* the value of a glm::vec3 member that no constructor sets
Indeterminate == <<0, 0, 0>>

\* Sphere(p, r, diffuse); normal is not set by the constructor
Sphere(p, r, diffuse) ==
  [kind |-> "Sphere", position |-> p, intersectionPoint |-> Indeterminate,
   diffuseColor |-> diffuse, specularColor |-> lightGray,
   radius |-> r, normal |-> Indeterminate,
   width |-> 0, height |-> 0, planePoint |-> Indeterminate]

\* Plane(p, n, diffuse, w, h); planePoint is Plane::intersectionPoint, the
\* member that hides SceneObject::intersectionPoint
Plane(p, n, diffuse, w, h) ==
  [kind |-> "Plane", position |-> p, intersectionPoint |-> Indeterminate,
   diffuseColor |-> diffuse, specularColor |-> lightGray,
   radius |-> 0, normal |-> n,
   width |-> w, height |-> h, planePoint |-> Indeterminate]

\* the rectangle test of Plane::intersect on the world point pt: xrange on
\* x and zrange on z, whatever the plane's normal
insidePlaneRect(o, pt) ==
  /\ pt[1] < o.position[1] + Div(o.width, 2)
  /\ pt[1] > o.position[1] - Div(o.width, 2)
  /\ pt[3] < o.position[3] + Div(o.height, 2)
  /\ pt[3] > o.position[3] - Div(o.height, 2)

\* Plane::intersect after "if (hit)", pt = r.evalPoint(dist): point and the
\* plane's intersectionPoint are set, then the rectangle decides
planeHitAt(o, pt) ==
  [hit |-> insidePlaneRect(o, pt), obj |-> [o EXCEPT !.planePoint = pt],
   point |-> pt, normal |-> o.normal]

\* Plane::intersect, from the result g of glm::intersectRayPlane
planeResult(o, ray, point, normalAtIntersect, g) ==
  IF g.hit THEN planeHitAt(o, evalPoint(ray, g.dist))
  ELSE [hit |-> FALSE, obj |-> o, point |-> point,
        normal |-> normalAtIntersect]

\* Plane::intersect(ray, point, normalAtIntersect): the result, the object
\* after the call and the two reference arguments after the call
PlaneIntersect(o, ray, point, normalAtIntersect) ==
  planeResult(o, ray, point, normalAtIntersect,
              intersectRayPlane(ray.p, ray.d, o.position, o.normal))

\* Sphere::intersect with setNormal run only while normal is unset: the
\* normal of the first call would stay
sphereResultFirstNormal(o, g) ==
  [hit |-> g.hit,
   obj |-> [o EXCEPT !.normal = IF @ = Indeterminate THEN g.normal ELSE @,
                     !.intersectionPoint = g.position],
   point |-> g.position, normal |-> g.normal]

\* Sphere::intersect, from the result g of glm::intersectRaySphere:
\* setNormal and the assignment of intersectionPoint run hit or miss
sphereResult(o, g) ==
  [hit |-> g.hit,
   obj |-> [o EXCEPT !.normal = g.normal, !.intersectionPoint = g.position],
   point |-> g.position, normal |-> g.normal]

\* Sphere::intersect(ray, point, normal)
SphereIntersect(o, ray, point, normal) ==
  sphereResult(o, intersectRaySphere(ray.p, Normalize(ray.d), o.position,
                                     o.radius, point, normal))

\* the virtual call scene[k]->intersect(ray, point, normal)
Intersect(o, ray, point, normal) ==
  IF o.kind = "Plane" THEN PlaneIntersect(o, ray, point, normal)
                      ELSE SphereIntersect(o, ray, point, normal)

\* the point argument was the object's own SceneObject::intersectionPoint
ownPoint(res) ==
  [res EXCEPT !.obj = [res.obj EXCEPT !.intersectionPoint = res.point]]

\* the call scene[k]->intersect(ray, scene[k]->intersectionPoint, normal) of
\* rayTrace
IntersectOwnPoint(o, ray, normal) ==
  ownPoint(Intersect(o, ray, o.intersectionPoint, normal))

\* the virtual call getNormal(p)
getNormal(o) == IF o.kind = "Plane" THEN o.normal ELSE Normalize(o.normal)

\* the virtual call getIntersectionPoint(): Plane overrides it, Sphere
\* inherits SceneObject's, which returns glm::vec3(1)
getIntersectionPoint(o) ==
  IF o.kind = "Plane" THEN o.planePoint ELSE Vec3(1, 1, 1)

\* scene[k], k counted from 0 as in the source
At(seq, k) == seq[k + 1]

\* seq with element k (from 0) replaced
Put(seq, k, x) == [seq EXCEPT ![k + 1] = x]

-----------------------------------------------------------------------------
(* RenderCam and ViewPlane *)

\* RenderCam(): position
renderCamPosition == Vec3(0, 0, 25)

\* ViewPlane(): min, max and position.z
viewMin == <<-3 * PS, -2 * PS>>

viewMax == <<3 * PS, 2 * PS>>

viewZ == 5 * PS

\* ViewPlane::toWorld(u, v), u and v fractions <<numerator, denominator>>
toWorld(u, v) ==
  LET w == viewMax[1] - viewMin[1]
      h == viewMax[2] - viewMin[2]
  IN <<Div(u[1] * w, u[2]) + viewMin[1], Div(v[1] * h, v[2]) + viewMin[2],
       viewZ>>

\* RenderCam::getRay(u, v)
getRay(u, v) ==
  Ray(renderCamPosition, Normalize(VSub(toWorld(u, v), renderCamPosition)))

-----------------------------------------------------------------------------
(* Light, spotLight and the two sliders of the GUI *)

\* fixed-point resolution of an angle in degrees
AS == 10

\* gui.add(intensity.setup("Light intensity", .2, .05, 5)): the slider's value
intensity == US \div 5

\* gui.add(power.setup("Phong p", 100, 10, 10000)): the slider's value
power == 100

\* Light(p, i)
Light(p, i) == [position |-> p, intensity |-> i]

\* spotLight(p, aimPos, i, angle); coneHeight is the member's initialiser
spotLight(p, aimPos, i, a) ==
  [position |-> p, intensity |-> i, aimPoint |-> aimPos,
   direction |-> VSub(p, aimPos), angle1 |-> a, coneHeight |-> 50 * PS]

\* Light::setIntensity(i)
setIntensity(l, i) == [l EXCEPT !.intensity = i]

-----------------------------------------------------------------------------
(* ofApp::ambient, lambert, phong, spotLightLambert *)

\* ofApp::ambient(diffuse) = .05 * diffuse
ambient(diffuse) == ColorMul(diffuse, US \div 20)

\* the factor (light.intensity / distance * distance) of lambert, phong and
\* spotLightLambert: the quotient first, then the product, left to right.
\* The quotient is kept as the fraction it is; distance 0 gives NaN in the
\* program and 0 here.
attenuation(lightIntensity, distance) ==
  LET quotient == <<lightIntensity, distance>>
  IN IF distance = 0 THEN 0
     ELSE Div(quotient[1] * distance, quotient[2])

\* ofApp::lambert(p, norm, diffuse, distance, r, light)
lambert(p, norm, diffuse, distance, r, light) ==
  LET l == Normalize(VSub(light.position, p))
  IN ColorAdd(black,
       ColorMul(ColorMul(diffuse, attenuation(light.intensity, distance)),
                Max2(0, UDot(norm, l))))

\* glm::pow(x, n) for a whole exponent n, x scaled by US, by squaring
RECURSIVE Pow(_, _)
Pow(x, n) ==
  IF n <= 0 THEN US
  ELSE LET h == Pow(x, n \div 2)
           sq == Div(h * h, US)
       IN IF n % 2 = 1 THEN Div(sq * x, US) ELSE sq

\* ofApp::phong(p, norm, diffuse, specular, power, distance, r, light): the
\* distance argument is not used, distance1 is
phong(p, norm, diffuse, specular, pw, distance, r, light) ==
  LET l == Normalize(VSub(light.position, p))
      v == Normalize(VSub(renderCamPosition, p))
      h == Normalize(VAdd(l, v))
      distance1 == Distance(light.position, p)
  IN ColorAdd(black,
       ColorAdd(lambert(p, norm, diffuse, distance1, r, light),
                ColorMul(ColorMul(specular,
                                  attenuation(light.intensity, distance1)),
                         Pow(Max2(0, UDot(norm, h)), pw))))

\* the radius of the sphere spotLightLambert tests: light.coneHeight / 2
coneRadius(light) == Div(light.coneHeight, 2)

\* the test of spotLightLambert: the ray from the camera towards p against
\* the sphere about the aim point
inConeArea(p, light) ==
  LET s == Ray(renderCamPosition, Normalize(VSub(p, renderCamPosition)))
  IN intersectRaySphere(s.p, s.d, light.aimPoint, coneRadius(light),
                        Indeterminate, Indeterminate).hit

\* ofApp::spotLightLambert(p, norm, diffuse, distance, r, light)
spotLightLambert(p, norm, diffuse, distance, r, light) ==
  IF inConeArea(p, light)
  THEN LET l == Normalize(VSub(light.position, p))
       IN ColorAdd(black,
            ColorMul(ColorMul(diffuse,
                              attenuation(light.intensity, distance)),
                     Max2(0, UDot(norm, l))))
  ELSE black

-----------------------------------------------------------------------------
(* ofApp::shade *)

\* the bound of "if (closestIndex < 2)": the indices shade takes for planes
planeCount == 2

\* the first index of "for (int j = 2; j < scene.size(); j++)"
firstOccluder == 2

\* whether shade runs its shadow test: closestIndex < 2
shadowTested(ci) == ci < planeCount

\* the body of the loop over the occluders, from the result res of
\* scene[j]->intersect(shadowRay, p1, ...): if it hits, blocked = true.
\* st = [scene, p1, blocked, casts]; casts counts the calls of intersect
occluderStep(j, st, res) ==
  [scene |-> Put(st.scene, j, res.obj), p1 |-> res.point,
   blocked |-> st.blocked \/ res.hit, casts |-> st.casts + 1]

\* for (int j = 2; j < scene.size(); j++)
\*   if (scene[j]->intersect(shadowRay, p1, scene[j]->getNormal(p1))) ...
RECURSIVE occluderLoop(_, _, _)
occluderLoop(j, shadowRay, st) ==
  IF j >= Len(st.scene) THEN st
  ELSE occluderLoop(j + 1, shadowRay,
         occluderStep(j, st,
           Intersect(At(st.scene, j), shadowRay, st.p1,
                     getNormal(At(st.scene, j)))))

\* Ray shadowRay = Ray(from, light[i]->position - from)
shadowRayTo(from, lightPos) == Ray(from, VSub(lightPos, from))

\* a shadow block after its occluder loop lp
shadowCast(st, lp) ==
  [st EXCEPT !.scene = lp.scene, !.p1 = lp.p1, !.blocked = lp.blocked,
             !.casts = lp.casts, !.rays = st.rays + 1]

\* a shadow block, from the result res of scene[idx]->intersect(r, p1, ...)
shadowAfter(idx, lightPos, st, res) ==
  IF res.hit
  THEN shadowCast(st,
         occluderLoop(firstOccluder,
           shadowRayTo(getIntersectionPoint(res.obj), lightPos),
           [scene |-> Put(st.scene, idx, res.obj), p1 |-> res.point,
            blocked |-> st.blocked, casts |-> st.casts]))
  ELSE [st EXCEPT !.scene = Put(st.scene, idx, res.obj), !.p1 = res.point]

\* one of the two blocks "ground plane shadows" (idx 0, normal (0,1,0)) and
\* "wall plane shadows" (idx 1, normal (0,0,1)) of shade, for the light at
\* lightPos.  st = [scene, p1, blocked, casts, rays, tested, oob]: rays
\* counts the shadow rays built; tested, the shadow test was entered; oob,
\* scene[idx] does not exist (the program reads past the end of the vector).
shadowBlock(idx, nrm, r, lightPos, st) ==
  IF idx >= Len(st.scene) THEN [st EXCEPT !.oob = TRUE]
  ELSE shadowAfter(idx, lightPos, st,
                   Intersect(At(st.scene, idx), r, st.p1, nrm))

\* if (closestIndex < 2) { ground plane shadows; wall plane shadows }
shadowTest(r, lightPos, ci, st) ==
  IF shadowTested(ci)
  THEN shadowBlock(1, Dir3(0, 0, 1), r, lightPos,
                   shadowBlock(0, Dir3(0, 1, 0), r, lightPos,
                               [st EXCEPT !.tested = TRUE]))
  ELSE st

\* the loop body of a light after its contribution c is known.  lights
\* records, per light, blocked, rays, casts and the contribution added
lightRecord(st, t, c) ==
  [scene |-> t.scene, p1 |-> t.p1, blocked |-> t.blocked, oob |-> t.oob,
   shaded |-> ColorAdd(st.shaded, c),
   lights |-> Append(st.lights,
                [tested |-> t.tested, blocked |-> t.blocked,
                 casts |-> t.casts, rays |-> t.rays, added |-> ~t.blocked,
                 contribution |-> c])]

\* if (!blocked) shaded += phong(p, norm, diffuse, specular, power,
\*                               distance, r, *light[i]);
lightAdd(p, norm, diffuse, distance, specular, pw, r, li, st, t) ==
  lightRecord(st, t,
    IF ~t.blocked THEN phong(p, norm, diffuse, specular, pw, distance, r, li)
    ELSE black)

\* blocked left as the light before left it
keepBlocked(b) == b

\* blocked = false, the first statement of the loop body (line 271)
resetBlocked(b) == FALSE

\* the body of "for (int i = 0; i < light.size(); i++)" for light i:
\* blocked = false, the shadow test, the phong contribution unless blocked.
\* st = [scene, p1, shaded, blocked, oob, lights]
lightBody(i, p, norm, diffuse, distance, specular, pw, r, env, st) ==
  lightAdd(p, norm, diffuse, distance, specular, pw, r, At(env.light, i), st,
    shadowTest(r, At(env.light, i).position, env.closestIndex,
      [scene |-> st.scene, p1 |-> st.p1,
       blocked |-> resetBlocked(st.blocked), casts |-> 0,
       rays |-> 0, tested |-> FALSE, oob |-> st.oob]))

RECURSIVE lightLoop(_, _, _, _, _, _, _, _, _, _)
lightLoop(i, p, norm, diffuse, distance, specular, pw, r, env, st) ==
  IF i >= Len(env.light) THEN st
  ELSE lightLoop(i + 1, p, norm, diffuse, distance, specular, pw, r, env,
         lightBody(i, p, norm, diffuse, distance, specular, pw, r, env, st))

\* shaded += c, for the contribution c of a spotlight
spotAdd(st, c) ==
  [shaded |-> ColorAdd(st.shaded, c), spots |-> Append(st.spots, c)]

\* for (int i = 0; i < spotLights.size(); i++)
\*   shaded += spotLightLambert(p, norm, diffuse, distance, r, *spotLights[i]);
\* st = [shaded, spots]; spots records each contribution
RECURSIVE spotLoop(_, _, _, _, _, _, _, _)
spotLoop(i, p, norm, diffuse, distance, r, env, st) ==
  IF i >= Len(env.spotLights) THEN st
  ELSE spotLoop(i + 1, p, norm, diffuse, distance, r, env,
         spotAdd(st, spotLightLambert(p, norm, diffuse, distance, r,
                                      At(env.spotLights, i))))

\* return shaded: s1 the state after the lights, s2 after the spotlights
shadeResult(s1, s2) ==
  [colour |-> s2.shaded, scene |-> s1.scene, blocked |-> s1.blocked,
   oob |-> s1.oob, lights |-> s1.lights, spots |-> s2.spots]

\* shade after the loop over the lights
shadeSpots(p, norm, diffuse, distance, r, env, s1) ==
  shadeResult(s1, spotLoop(0, p, norm, diffuse, distance, r, env,
                           [shaded |-> s1.shaded, spots |-> <<>>]))

\* ofApp::shade(p, norm, diffuse, distance, specular, power, r) in the state
\* env = [scene, light, spotLights, closestIndex, blocked]: the colour
\* returned, scene and blocked after the call, and the record of each light.
\* "ofColor shaded = (0, 0, 0)" is black; no ambient term is added.
shade(p, norm, diffuse, distance, specular, pw, r, env) ==
  shadeSpots(p, norm, diffuse, distance, r, env,
    lightLoop(0, p, norm, diffuse, distance, specular, pw, r, env,
      [scene |-> env.scene, p1 |-> p, blocked |-> env.blocked,
       oob |-> FALSE, shaded |-> black, lights |-> <<>>]))

-----------------------------------------------------------------------------
(* ofApp::rayTrace: the body of the pixel loop *)

\* float close = FLT_MAX: a length beyond every distance of the model
FLT_MAX == 1000000

\* the comparison with <= in place of <: a later primitive at an equal
\* distance would replace the earlier one
closerOrEqual(distance, close) == distance <= close

\* if (distance < close)
closer(distance, close) == distance < close

\* the body of the loop over the scene, from the result res of intersect and
\* distance = glm::distance(r.p, scene[k]->position).
\* st = [scene, background, close, closestIndex, hits]; hits records the
\* result of each call of intersect, in the order of the calls
closestStep(k, st, res, distance) ==
  [scene |-> Put(st.scene, k, res.obj),
   background |-> st.background /\ ~res.hit,
   close |-> IF res.hit /\ closer(distance, st.close)
             THEN distance ELSE st.close,
   closestIndex |-> IF res.hit /\ closer(distance, st.close)
                    THEN k ELSE st.closestIndex,
   hits |-> Append(st.hits, res.hit)]

\* for (int k = 0; k < scene.size(); k++) of rayTrace
RECURSIVE closestLoop(_, _, _)
closestLoop(k, r, st) ==
  IF k >= Len(st.scene) THEN st
  ELSE closestLoop(k + 1, r,
         closestStep(k, st,
           IntersectOwnPoint(At(st.scene, k), r, Dir3(0, 1, 0)),
           Distance(r.p, At(st.scene, k).position)))

\* the branch taken whatever background is: shade called for a miss too
shadeAlways(bg) == TRUE

\* if (!background) ... else if (background): whether shade is called
shadeCalled(bg) == ~bg

\* ofColor::black, the colour of a background pixel
backgroundColour == black

\* the pixel body when shade is not called, lp the state after the loop
unshaded(env, lp) ==
  [colour |-> backgroundColour, scene |-> lp.scene, blocked |-> env.blocked,
   background |-> lp.background, closestIndex |-> lp.closestIndex,
   close |-> lp.close, hits |-> lp.hits, shaded |-> FALSE,
   visible |-> "none", p |-> Indeterminate, norm |-> Indeterminate,
   diffuse |-> black, oob |-> FALSE, lights |-> <<>>, spots |-> <<>>]

\* the pixel body after closest = shade(...) returned sh for the primitive
\* o = scene[closestIndex] and the point p = r.evalPoint(close)
shadedPixel(lp, o, p, sh) ==
  [colour |-> sh.colour, scene |-> sh.scene, blocked |-> sh.blocked,
   background |-> lp.background, closestIndex |-> lp.closestIndex,
   close |-> lp.close, hits |-> lp.hits, shaded |-> TRUE,
   visible |-> o.kind, p |-> p, norm |-> getNormal(o),
   diffuse |-> o.diffuseColor, oob |-> sh.oob, lights |-> sh.lights,
   spots |-> sh.spots]

\* closest = shade(r.evalPoint(close), scene[closestIndex]->getNormal(...),
\*                 scene[closestIndex]->diffuseColor, close,
\*                 ofColor::lightGray, power, r)
shadePixel(r, env, lp, o, p) ==
  shadedPixel(lp, o, p,
    shade(p, getNormal(o), o.diffuseColor, lp.close, lightGray, power, r,
          [env EXCEPT !.scene = lp.scene, !.closestIndex = lp.closestIndex]))

\* the pixel body after the loop over the scene.  oob: scene[closestIndex]
\* or, in shade, scene[0] or scene[1] is read past the end of the vector.
afterClosestLoop(r, env, lp) ==
  IF ~shadeCalled(lp.background) THEN unshaded(env, lp)
  ELSE IF lp.closestIndex >= Len(lp.scene)
  THEN [unshaded(env, lp) EXCEPT !.shaded = TRUE, !.oob = TRUE]
  ELSE shadePixel(r, env, lp, At(lp.scene, lp.closestIndex),
                  evalPoint(r, lp.close))

\* the members and locals left as the pixel before left them: background
\* and closestIndex are not reset
pixelNoReset(env) ==
  [scene |-> env.scene, background |-> env.background, close |-> FLT_MAX,
   closestIndex |-> env.closestIndex, hits |-> <<>>]

\* "reset variables every pixel" (lines 140-143): background = true,
\* close = FLT_MAX, closestIndex = 0, before the loop over the scene
pixelReset(env) ==
  [scene |-> env.scene, background |-> TRUE, close |-> FLT_MAX,
   closestIndex |-> 0, hits |-> <<>>]

\* lines 140-168 of rayTrace for the ray r of one pixel, in the state
\* env = [scene, light, spotLights, closestIndex, background, blocked]: the
\* colour passed to image.setColor, the members after the body, and what the body did
tracePixel(r, env) ==
  afterClosestLoop(r, env, closestLoop(0, r, pixelReset(env)))

-----------------------------------------------------------------------------
(* The state of ofApp *)

\* the raster: ofApp::imageWidth and imageHeight (1200 x 800 in the source)
imageWidth == 6

imageHeight == 4

\* the number of presses of the keys that change an angle in one run
MaxKeyPresses == 2

Cells == (0 .. imageWidth - 1) \X (0 .. imageHeight - 1)

\* the colour of a cell that image.setColor has not written
NoColour == <<-1, -1, -1>>

VARIABLES
  phase,         \* "constructed", "idle" (between handlers), "rendering"
  scene,         \* vector<SceneObject*> scene
  light,         \* vector<Light*> light
  spotLights,    \* vector<spotLight*> spotLights
  aimPoint,      \* vector<glm::vec3> aimPoint
  spotLightPos,  \* vector<glm::vec3> spotLightPos
  angle,         \* vector<float> angle
  mouseInput,    \* mainCam.getMouseInputEnabled()
  closestIndex,  \* int closestIndex
  background,    \* bool background
  blocked,       \* bool blocked
  image,         \* ofImage image: the colour of each cell
  pi,            \* the loop variable i of rayTrace
  pj,            \* the loop variable j of rayTrace
  writes,        \* per cell, the calls of image.setColor in this pass
  last,          \* what the last pixel body did
  sink,          \* what image.save was last handed
  keys,          \* presses of UP, DOWN and RIGHT so far
  fn             \* the last call of a function taken alone, and its result

vars == <<phase, scene, light, spotLights, aimPoint, spotLightPos, angle,
          mouseInput, closestIndex, background, blocked, image, pi, pj,
          writes, last, sink, keys, fn>>

appVars == <<phase, scene, light, spotLights, aimPoint, spotLightPos, angle,
             mouseInput, closestIndex, background, blocked, image, pi, pj,
             writes, last, sink, keys>>

noPixel ==
  [i |-> -1, j |-> -1, colour |-> NoColour, hits |-> <<>>, shaded |-> FALSE,
   visible |-> "none", closestIndex |-> 0, close |-> FLT_MAX,
   p |-> Indeterminate, norm |-> Indeterminate, diffuse |-> black,
   oob |-> FALSE, lights |-> <<>>, spots |-> <<>>]

noCall == [op |-> "none"]

\* the members of ofApp after its construction (ofApp.h, lines 294-352)
Init ==
  /\ phase = "constructed"
  /\ scene = <<>>
  /\ light = <<>>
  /\ spotLights = <<>>
  /\ aimPoint = <<>>
  /\ spotLightPos = <<>>
  /\ angle = <<>>
  /\ mouseInput = TRUE
  /\ closestIndex = 0
  /\ background = TRUE
  /\ blocked = FALSE
  /\ image = [c \in Cells |-> NoColour]
  /\ pi = 0
  /\ pj = 0
  /\ writes = [c \in Cells |-> 0]
  /\ last = noPixel
  /\ sink = [handed |-> FALSE, raster |-> [c \in Cells |-> NoColour],
             writes |-> [c \in Cells |-> 0]]
  /\ keys = 0
  /\ fn = noCall

-----------------------------------------------------------------------------
(* The handlers of ofApp *)

\* aimPoint.push_back(glm::vec3(1, -5, 0)) of setup
setupAimPoint == <<Vec3(1, -5, 0)>>

\* spotLightPos.push_back(glm::vec3(-20, 30, 45)) of setup
setupSpotLightPos == <<Vec3(-20, 30, 45)>>

\* angle.push_back(15) of setup
setupAngle == <<15 * AS>>

\* ofApp::setup
Setup ==
  /\ phase = "constructed"
  /\ phase' = "idle"
  /\ image' = [c \in Cells |-> NoColour]
  /\ aimPoint' = setupAimPoint
  /\ spotLightPos' = setupSpotLightPos
  /\ angle' = setupAngle
  /\ UNCHANGED <<scene, light, spotLights, mouseInput, closestIndex,
                 background, blocked, pi, pj, writes, last, sink, keys, fn>>

\* the scene draw builds: the ground plane, then the purple sphere
drawScene ==
  <<Plane(Vec3(0, -5, 0), Dir3(0, 1, 0), darkBlue, 600 * PS, 400 * PS),
    Sphere(Vec3(0, 1, -2), 1 * PS, purple)>>

\* the light at position lightPos that draw builds; the loop at the end of
\* draw gives it the slider's intensity
drawLight(lightPos) == <<setIntensity(Light(lightPos, US \div 5), intensity)>>

\* the position of the "top right light" of draw
topRightLight == Vec3(100, 150, 150)

\* the spotlights draw builds from spotLightPos, aimPoint and angle
drawSpotLights(pos, aim, ang) ==
  [i \in 1 .. Len(aim) |->
     setIntensity(spotLight(pos[i], aim[i], 2 * US, ang[i]), intensity)]

\* ofApp::draw: scene, light and spotLights are rebuilt on every call
Draw ==
  /\ phase = "idle"
  /\ scene' = drawScene
  /\ light' = drawLight(topRightLight)
  /\ spotLights' = drawSpotLights(spotLightPos, aimPoint, angle)
  /\ UNCHANGED <<phase, aimPoint, spotLightPos, angle, mouseInput,
                 closestIndex, background, blocked, image, pi, pj, writes,
                 last, sink, keys, fn>>

\* ofApp::updateAngle(increase): the angles after the call
updateAngle(increase) ==
  IF mouseInput THEN angle
  ELSE [i \in 1 .. Len(angle) |->
          IF i > Len(spotLights) THEN angle[i]
          ELSE IF increase
          THEN (IF angle[i] < 50 * AS THEN angle[i] + AS \div 2 ELSE angle[i])
          ELSE (IF angle[i] > 10 * AS THEN angle[i] - AS \div 2 ELSE angle[i])]

\* keyPressed(OF_KEY_UP)
KeyUp ==
  /\ phase = "idle" /\ keys < MaxKeyPresses
  /\ angle' = updateAngle(TRUE)
  /\ keys' = keys + 1
  /\ UNCHANGED <<phase, scene, light, spotLights, aimPoint, spotLightPos,
                 mouseInput, closestIndex, background, blocked, image, pi, pj,
                 writes, last, sink, fn>>

\* keyPressed(OF_KEY_DOWN)
KeyDown ==
  /\ phase = "idle" /\ keys < MaxKeyPresses
  /\ angle' = updateAngle(FALSE)
  /\ keys' = keys + 1
  /\ UNCHANGED <<phase, scene, light, spotLights, aimPoint, spotLightPos,
                 mouseInput, closestIndex, background, blocked, image, pi, pj,
                 writes, last, sink, fn>>

\* keyPressed(OF_KEY_RIGHT): angle[0] += .5
KeyRight ==
  /\ phase = "idle" /\ keys < MaxKeyPresses
  /\ angle' = [angle EXCEPT ![1] = @ + AS \div 2]
  /\ keys' = keys + 1
  /\ UNCHANGED <<phase, scene, light, spotLights, aimPoint, spotLightPos,
                 mouseInput, closestIndex, background, blocked, image, pi, pj,
                 writes, last, sink, fn>>

\* keyPressed('c')
KeyC ==
  /\ phase = "idle"
  /\ mouseInput' = ~mouseInput
  /\ UNCHANGED <<phase, scene, light, spotLights, aimPoint, spotLightPos,
                 angle, closestIndex, background, blocked, image, pi, pj,
                 writes, last, sink, keys, fn>>

\* the loop bound one short: the last column is never visited
inColumnLoopShort(i) == i < imageWidth - 1

\* for (int i = 0; i < image.getWidth(); i++)
inColumnLoop(i) == i < imageWidth

\* for (int j = 0; j < image.getHeight(); j++)
inRowLoop(j) == j < imageHeight

\* keyPressed('t'): rayTrace is entered (lines 130-137)
StartRender ==
  /\ phase = "idle"
  /\ phase' = "rendering"
  /\ closestIndex' = 0
  /\ pi' = 0
  /\ pj' = 0
  /\ writes' = [c \in Cells |-> 0]
  /\ UNCHANGED <<scene, light, spotLights, aimPoint, spotLightPos, angle,
                 mouseInput, background, blocked, image, last, sink, keys, fn>>

\* float u = (i + .5) / image.getWidth(), as a fraction
pixelU(i) == <<2 * i + 1, 2 * imageWidth>>

\* float v = 1 - (j + .5) / image.getHeight(), as a fraction
pixelV(j) == <<2 * imageHeight - (2 * j + 1), 2 * imageHeight>>

\* image.setColor(i, j, ...) and the members after the pixel body t
storePixel(t) ==
  /\ scene' = t.scene
  /\ closestIndex' = t.closestIndex
  /\ background' = t.background
  /\ blocked' = t.blocked
  /\ image' = [image EXCEPT ![<<pi, pj>>] = t.colour]
  /\ writes' = [writes EXCEPT ![<<pi, pj>>] = @ + 1]
  /\ last' = [i |-> pi, j |-> pj, colour |-> t.colour, hits |-> t.hits,
              shaded |-> t.shaded, visible |-> t.visible,
              closestIndex |-> t.closestIndex, close |-> t.close,
              p |-> t.p, norm |-> t.norm, diffuse |-> t.diffuse,
              oob |-> t.oob, lights |-> t.lights, spots |-> t.spots]

\* the step of the loop variables of rayTrace: j++ in the inner loop, i++
\* and j = 0 when the inner loop ends
loopStep ==
  /\ phase = "rendering"
  /\ inColumnLoop(pi) /\ inRowLoop(pj)
  /\ IF inRowLoop(pj + 1)
     THEN pi' = pi /\ pj' = pj + 1
     ELSE pi' = pi + 1 /\ pj' = 0
  /\ phase' = phase

\* the variables loopStep sets
loopVars == <<phase, pi, pj>>

\* one pass of the body of the pixel loop of rayTrace (lines 140-168), and
\* the step of the loop variables
RenderPixel ==
  /\ loopStep
  /\ storePixel(tracePixel(getRay(pixelU(pi), pixelV(pj)),
                           [scene |-> scene, light |-> light,
                            spotLights |-> spotLights,
                            closestIndex |-> closestIndex,
                            background |-> background,
                            blocked |-> blocked]))
  /\ UNCHANGED <<light, spotLights, aimPoint, spotLightPos, angle,
                 mouseInput, sink, keys, fn>>

\* the end of rayTrace (lines 172-173): image.save, image.load
FinishRender ==
  /\ phase = "rendering"
  /\ ~inColumnLoop(pi)
  /\ sink' = [handed |-> TRUE, raster |-> image, writes |-> writes]
  /\ phase' = "idle"
  /\ UNCHANGED <<scene, light, spotLights, aimPoint, spotLightPos, angle,
                 mouseInput, closestIndex, background, blocked, image, pi, pj,
                 writes, last, keys, fn>>

Next ==
  \/ Setup
  \/ Draw
  \/ KeyUp
  \/ KeyDown
  \/ KeyRight
  \/ KeyC
  \/ StartRender
  \/ RenderPixel
  \/ FinishRender

Spec == Init /\ [][Next]_vars

\* rayTrace is one call: once entered, its loop runs to the end
FairSpec == Spec /\ WF_loopVars(loopStep) /\ WF_vars(FinishRender)

-----------------------------------------------------------------------------
(* The functions taken alone: each action calls one function of the program *)
(* on inputs drawn from a bounded set and records the call in fn.  A        *)
(* behaviour holds one call, or the calls of intersect on one primitive.    *)

\* the most primitives of a scene handed to the nearest-hit loop
MaxPrims == 3

\* the most world units of a distance handed to lambert
MaxDistance == 4

\* the primitives the scenes of the nearest-hit loop are made of: two
\* spheres at one distance from the camera, a nearer one, one off every
\* ray, and the ground plane of draw
loopPrims ==
  {Sphere(Vec3(-1, 0, 0), 2 * PS, purple), Sphere(Vec3(1, 0, 0), 2 * PS, grey),
   Sphere(Vec3(0, 0, 10), 1 * PS, darkBlue),
   Sphere(Vec3(40, 40, 0), 1 * PS, purple), drawScene[1]}

RECURSIVE scenesOf(_)
scenesOf(n) ==
  IF n = 0 THEN {<<>>}
  ELSE scenesOf(n - 1) \cup
       {Append(sc, o) : sc \in {x \in scenesOf(n - 1) : Len(x) = n - 1},
                        o \in loopPrims}

\* the ray of the camera through the world point target
rayTowards(target) ==
  Ray(renderCamPosition, Normalize(VSub(target, renderCamPosition)))

\* the points the rays of the functions taken alone go through
loopTargets == {Vec3(0, 0, 0), Vec3(0, -5, -30), Vec3(0, 50, 0)}

\* the loop over the scene of rayTrace (lines 140-160), on the scene sc
CallClosestLoop ==
  /\ fn = noCall
  /\ \E sc \in scenesOf(MaxPrims), target \in loopTargets :
    /\ fn' = [op |-> "closestLoop", scene |-> sc, ray |-> rayTowards(target),
              out |-> closestLoop(0, rayTowards(target),
                        [scene |-> sc, background |-> TRUE,
                         close |-> FLT_MAX, closestIndex |-> 0,
                         hits |-> <<>>])]
    /\ UNCHANGED appVars

\* the primitives intersect is called on: a ground plane, a wall plane (the
\* planes shade names) and the sphere of draw
newPrims ==
  {Plane(Vec3(0, -5, 0), Dir3(0, 1, 0), darkBlue, 20 * PS, 20 * PS),
   Plane(Vec3(0, 0, 0), Dir3(0, 0, 1), grey, 20 * PS, 20 * PS),
   drawScene[2]}

\* the points the rays handed to intersect go through
intersectTargets ==
  {Vec3(0, -5, 0), Vec3(0, -5, -30), Vec3(0, 100, 0), Vec3(0, 1, -2),
   Vec3(5, 0, 25), Vec3(3, 1, 0)}

\* the value of the caller's local p1 when shade calls intersect
callerPoint == Vec3(7, 7, 7)

\* new Plane(...), new Sphere(...)
NewPrimitive ==
  /\ fn = noCall
  /\ \E o \in newPrims :
    /\ fn' = [op |-> "new", obj |-> o]
    /\ UNCHANGED appVars

\* what fn records of a call of intersect on the primitive before: the
\* result res and good, the point of the last call that returned true
intersectCall(before, r, res, good) ==
  [op |-> "intersect", before |-> before, ray |-> r, obj |-> res.obj,
   res |-> res, good |-> IF res.hit THEN <<res.point>> ELSE good]

\* one call of intersect on the primitive of fn: as rayTrace calls it (own)
\* or as shade calls it
CallIntersect ==
  /\ fn.op \in {"new", "intersect"}
  /\ \E target \in intersectTargets, own \in BOOLEAN :
       fn' = intersectCall(fn.obj, rayTowards(target),
               IF own
               THEN IntersectOwnPoint(fn.obj, rayTowards(target),
                                      Dir3(0, 1, 0))
               ELSE Intersect(fn.obj, rayTowards(target), callerPoint,
                              Dir3(0, 1, 0)),
               IF fn.op = "new" THEN <<>> ELSE fn.good)
  /\ UNCHANGED appVars

\* the distances handed to lambert and spotLightLambert
Distances == {k * PS : k \in 1 .. MaxDistance}

\* the shaded points of lambert and spotLightLambert taken alone
shadePoints == {Vec3(0, -5, 0), Vec3(0, -5, -40), Vec3(60, -5, 0)}

\* lambert at the distances d and 2d, all else equal
CallLambert ==
  /\ fn = noCall
  /\ \E p \in shadePoints, d \in Distances, diffuse \in Colors :
    /\ fn' = [op |-> "lambert", p |-> p, diffuse |-> diffuse,
              distance |-> d,
              near |-> lambert(p, Dir3(0, 1, 0), diffuse, d,
                               rayTowards(p), drawLight(topRightLight)[1]),
              far |-> lambert(p, Dir3(0, 1, 0), diffuse, 2 * d,
                              rayTowards(p), drawLight(topRightLight)[1])]
    /\ UNCHANGED appVars

\* the spotlight of setup and draw
theSpotLight ==
  drawSpotLights(setupSpotLightPos, setupAimPoint, setupAngle)[1]

\* spotLightLambert at the distances d and 2d, all else equal
CallSpotLightLambert ==
  /\ fn = noCall
  /\ \E p \in shadePoints, d \in Distances, diffuse \in Colors :
    /\ fn' = [op |-> "spotLightLambert", p |-> p, diffuse |-> diffuse,
              distance |-> d, light |-> theSpotLight,
              near |-> spotLightLambert(p, Dir3(0, 1, 0), diffuse, d,
                                        rayTowards(p), theSpotLight),
              far |-> spotLightLambert(p, Dir3(0, 1, 0), diffuse, 2 * d,
                                       rayTowards(p), theSpotLight)]
    /\ UNCHANGED appVars

\* the positions of the point light of the pixel body taken alone: the one
\* of draw, and one with the sphere of draw between it and the ground at
\* the ground plane's position
lightPositions == {topRightLight, Vec3(0, 145, -50)}

\* the points the rays of the pixel body taken alone go through
pixelTargets ==
  {Vec3(0, -5, 0), Vec3(3, -5, 0), Vec3(-4, -5, -8), Vec3(0, 1, -2),
   Vec3(0, 50, 0)}

\* the body of the pixel loop of rayTrace (lines 140-168) for the ray of the
\* camera through target, in the scene of draw with the light at lightPos
CallTracePixel ==
  /\ fn = noCall
  /\ \E target \in pixelTargets, lightPos \in lightPositions :
    /\ fn' = [op |-> "tracePixel", ray |-> rayTowards(target),
              light |-> drawLight(lightPos),
              out |-> tracePixel(rayTowards(target),
                        [scene |-> drawScene, light |-> drawLight(lightPos),
                         spotLights |-> <<theSpotLight>>,
                         closestIndex |-> 0, background |-> TRUE,
                         blocked |-> FALSE])]
    /\ UNCHANGED appVars

\* the most point lights of a call of shade taken alone
MaxLights == 2

\* ofColor::blue
blue == <<0, 0, 255>>

\* the scene of draw with the "blue sphere" line in: the ground plane at
\* index 0, the purple sphere at 1, the blue sphere at 2
sceneWithBlue ==
  Append(drawScene, Sphere(Vec3(-1, 0, 1), 1 * PS, blue))

\* the positions of the three lights draw names: "top right", "top left",
\* "bottom"
drawLightPositions ==
  {topRightLight, Vec3(-20, 30, 45), Vec3(-5, -2, 20)}

\* the vectors of at most n lights at those positions
RECURSIVE lightsOf(_)
lightsOf(n) ==
  IF n = 0 THEN {<<>>}
  ELSE lightsOf(n - 1) \cup
       {ls \o drawLight(pos) : ls \in {x \in lightsOf(n - 1) : Len(x) = n - 1},
                               pos \in drawLightPositions}

\* the points the rays of shade taken alone go through: on the ground in
\* and out of the shadows of the blue sphere, and on the two spheres
shadeTargets ==
  {Vec3(2, -5, -6), Vec3(-2, -5, 0), Vec3(0, -5, 0), Vec3(3, -5, 0),
   Vec3(0, 1, -2), Vec3(-1, 0, 1)}

\* the state shade is called in for the lights ls
shadeEnv(ls) ==
  [scene |-> sceneWithBlue, light |-> ls, spotLights |-> <<theSpotLight>>,
   closestIndex |-> 0, background |-> TRUE, blocked |-> FALSE]

\* the pixel body, and so shade, for the ray of the camera through target,
\* in the scene with the blue sphere and the lights ls
CallShadeLights ==
  /\ fn = noCall
  /\ \E target \in shadeTargets, ls \in lightsOf(MaxLights) :
       fn' = [op |-> "shade", ray |-> rayTowards(target), light |-> ls,
              out |-> tracePixel(rayTowards(target), shadeEnv(ls))]
  /\ UNCHANGED appVars

FnNext ==
  \/ CallShadeLights
  \/ CallClosestLoop
  \/ NewPrimitive
  \/ CallIntersect
  \/ CallLambert
  \/ CallSpotLightLambert
  \/ CallTracePixel

FnSpec == Init /\ [][FnNext]_vars

-----------------------------------------------------------------------------
(* The pixel body in any order: each step runs the body of the pixel loop   *)
(* for any cell of the raster, in the state the step before left.           *)

\* the scene with the members intersect writes as the constructors left them
snapshot(sc) ==
  [k \in 1 .. Len(sc) |->
     [sc[k] EXCEPT !.intersectionPoint = Indeterminate,
                   !.planePoint = Indeterminate,
                   !.normal = IF sc[k].kind = "Sphere" THEN Indeterminate
                              ELSE @]]

\* what last records of the pixel body t run for the cell (i, j)
pixelRecord(i, j, t) ==
  [i |-> i, j |-> j, colour |-> t.colour, hits |-> t.hits,
   shaded |-> t.shaded, visible |-> t.visible,
   closestIndex |-> t.closestIndex, close |-> t.close, p |-> t.p,
   norm |-> t.norm, diffuse |-> t.diffuse, oob |-> t.oob,
   lights |-> t.lights, spots |-> t.spots]

\* the members after the pixel body t run for the cell (i, j)
tracedPixel(i, j, t) ==
  /\ scene' = t.scene
  /\ closestIndex' = t.closestIndex
  /\ background' = t.background
  /\ blocked' = t.blocked
  /\ last' = pixelRecord(i, j, t)

\* lines 140-168 of rayTrace for any cell: fn records the members the body
\* started from (written: a primitive held what an earlier call of
\* intersect wrote) and the scene, lights and spotlights as built
TraceAnyPixel ==
  /\ phase = "idle"
  /\ \E c \in Cells :
       tracedPixel(c[1], c[2],
         tracePixel(getRay(pixelU(c[1]), pixelV(c[2])),
                    [scene |-> scene, light |-> light,
                     spotLights |-> spotLights,
                     closestIndex |-> closestIndex,
                     background |-> background, blocked |-> blocked]))
  /\ fn' = [op |-> "pixel",
            before |-> [written |-> scene # snapshot(scene),
                        closestIndex |-> closestIndex,
                        background |-> background, blocked |-> blocked],
            built |-> [scene |-> snapshot(scene), light |-> light,
                       spotLights |-> spotLights]]
  /\ UNCHANGED <<phase, light, spotLights, aimPoint, spotLightPos, angle,
                 mouseInput, image, pi, pj, writes, sink, keys>>

OrderNext ==
  \/ Setup
  \/ Draw
  \/ TraceAnyPixel

OrderSpec == Init /\ [][OrderNext]_vars

-----------------------------------------------------------------------------
(* The keys that turn the spotlight, pressed any number of times *)

\* the most degrees angle[0] is followed to: the code sets no limit
MaxAngle == 91

\* what the key handlers of the angle leave alone
angleFrame ==
  UNCHANGED <<phase, scene, light, spotLights, aimPoint, spotLightPos,
              mouseInput, closestIndex, background, blocked, image, pi, pj,
              writes, last, sink, keys, fn>>

\* keyPressed(OF_KEY_UP), any number of times
HoldUp ==
  /\ phase = "idle"
  /\ angle' = updateAngle(TRUE)
  /\ angleFrame

\* keyPressed(OF_KEY_DOWN), any number of times
HoldDown ==
  /\ phase = "idle"
  /\ angle' = updateAngle(FALSE)
  /\ angleFrame

\* keyPressed(OF_KEY_RIGHT), any number of times: angle[0] += .5
HoldRight ==
  /\ phase = "idle"
  /\ angle[1] < MaxAngle * AS
  /\ angle' = [angle EXCEPT ![1] = @ + AS \div 2]
  /\ angleFrame

AngleNext ==
  \/ Setup
  \/ Draw
  \/ HoldUp
  \/ HoldDown
  \/ HoldRight
  \/ KeyC

AngleSpec == Init /\ [][AngleNext]_vars

-----------------------------------------------------------------------------
(* Properties *)

\* every element of the sequence of booleans hs is FALSE
allMiss(hs) == \A k \in 1 .. Len(hs) : ~hs[k]

\* C1: a pixel whose camera ray intersect reported as a miss on every
\* primitive of scene (the empty scene included) is stored with the
\* background colour, black, and shade was not called for it.
MissIsBackground ==
  (last.i >= 0 /\ allMiss(last.hits)) =>
    /\ image[<<last.i, last.j>>] = black
    /\ last.colour = black
    /\ ~last.shaded

\* a pixel of the scene of draw that both primitives reported as a miss
MissPixelRendered ==
  /\ last.i >= 0 /\ Len(last.hits) = Len(drawScene) /\ allMiss(last.hits)
  /\ image[<<last.i, last.j>>] = black /\ ~last.shaded

\* the indices (from 0) of the primitives of a recorded loop that were hit
hitSet(hs) == {k \in 0 .. Len(hs) - 1 : hs[k + 1]}

\* the distance the loop compares: ray origin to primitive position
loopDistance(r, sc, k) == Distance(r.p, At(sc, k).position)

\* C2: the nearest-hit loop tests every primitive of the scene; if the ray
\* hits any, closestIndex is the index of a hit primitive whose distance
\* (ray origin to primitive position) is minimal among the hit ones, and
\* the lowest such index; if it hits none, background stays true.
NearestHitLowestIndex ==
  (fn.op = "closestLoop") =>
    /\ Len(fn.out.hits) = Len(fn.scene)
    /\ \A k \in 0 .. Len(fn.scene) - 1 :
         fn.out.hits[k + 1] =
           IntersectOwnPoint(At(fn.scene, k), fn.ray, Dir3(0, 1, 0)).hit
    /\ fn.out.background = (hitSet(fn.out.hits) = {})
    /\ (hitSet(fn.out.hits) # {}) =>
         /\ fn.out.closestIndex \in hitSet(fn.out.hits)
         /\ fn.out.close =
              loopDistance(fn.ray, fn.scene, fn.out.closestIndex)
         /\ \A k \in hitSet(fn.out.hits) :
              /\ fn.out.close <= loopDistance(fn.ray, fn.scene, k)
              /\ (fn.out.close = loopDistance(fn.ray, fn.scene, k)) =>
                   fn.out.closestIndex <= k

\* a scene whose first primitive is missed and in which two hit primitives
\* share the minimal distance: the earlier of the two is kept
TieKeepsEarlier ==
  /\ fn.op = "closestLoop"
  /\ fn.out.closestIndex = 1
  /\ ~fn.out.hits[1]
  /\ \E k \in hitSet(fn.out.hits) :
       /\ k > fn.out.closestIndex
       /\ loopDistance(fn.ray, fn.scene, k) = fn.out.close

\* the raster a pass has written, or handed over, is whole and written once
RenderSafe ==
  /\ \A c \in Cells : writes[c] <= 1
  /\ (phase = "rendering" /\ pi >= imageWidth) =>
       \A c \in Cells : writes[c] = 1
  /\ sink.handed =>
       \A c \in Cells : sink.writes[c] = 1 /\ sink.raster[c] # NoColour

\* C3: a render pass writes every cell of the raster exactly once, hands the
\* raster to image.save only when every cell has been written, and ends.
RenderPassCompletes ==
  /\ []RenderSafe
  /\ [][sink' # sink => \A c \in Cells : writes[c] = 1 /\ image[c] # NoColour]_vars
  /\ (phase = "rendering") ~> (phase = "idle" /\ sink.handed)

\* a pass over the scene of draw has ended and its raster was handed over
RasterHandedOver ==
  /\ phase = "idle" /\ sink.handed
  /\ \A c \in Cells : sink.writes[c] = 1
  /\ \E c \in Cells : sink.raster[c] # black

\* the sphere o lies on the segment from p to lightPos: the point of the
\* segment's line nearest its centre is on the segment and within its radius
sphereBetween(p, lightPos, o) ==
  LET u == Normalize(VSub(lightPos, p))
      w == VSub(o.position, p)
  IN /\ UDot(w, u) >= 0
     /\ UDot(w, u) <= Distance(lightPos, p)
     /\ Length2(VScale(Cross(w, u), 1, US)) <= o.radius * o.radius

\* the spheres of a scene
spheresOf(sc) == {k \in 1 .. Len(sc) : sc[k].kind = "Sphere"}

\* the point p is on the plane o, to a tenth of a world unit
onPlane(p, o) == Abs(UDot(VSub(p, o.position), o.normal)) <= PS \div 10

\* C4: in the scene of draw, for a shaded point on the ground plane, a point
\* light contributes nothing if a sphere of the scene lies on the segment
\* from the point to the light, and its phong term is added otherwise.
SphereShadowsGround ==
  (fn.op = "tracePixel" /\ fn.out.shaded /\ fn.out.closestIndex = 0
     /\ onPlane(fn.out.p, drawScene[1])) =>
    \A i \in 1 .. Len(fn.out.lights) :
      IF \E k \in spheresOf(drawScene) :
           sphereBetween(fn.out.p, fn.light[i].position, drawScene[k])
      THEN fn.out.lights[i].contribution = black
      ELSE fn.out.lights[i].added

\* C5: the shadow test of a point light is entered only when the visible
\* primitive is a plane; when it is a sphere no shadow ray is built or
\* cast, blocked stays false and every point light's contribution is added.
ShadowTestOnlyForPlanes ==
  (last.i >= 0 /\ last.shaded /\ ~last.oob) =>
    \A i \in 1 .. Len(last.lights) :
      /\ last.lights[i].tested => last.visible = "Plane"
      /\ (last.visible = "Sphere") =>
           /\ last.lights[i].rays = 0
           /\ last.lights[i].casts = 0
           /\ ~last.lights[i].blocked
           /\ last.lights[i].added

\* the sum of the colours of a sequence, as ofColor adds
RECURSIVE sumColours(_)
sumColours(cs) ==
  IF cs = <<>> THEN black ELSE ColorAdd(cs[1], sumColours(Tail(cs)))

\* C6: the colour of a hit pixel is ambient(diffuse), plus the phong term of
\* every point light that is not occluded, plus the term of every spotlight.
ColourIsAmbientPlusLights ==
  (last.i >= 0 /\ last.shaded /\ ~last.oob) =>
    last.colour =
      ColorAdd(ColorAdd(ambient(last.diffuse),
                        sumColours([i \in 1 .. Len(last.lights) |->
                                      last.lights[i].contribution])),
               sumColours(last.spots))

\* C7: the Lambert term falls with the square of the supplied distance: at
\* the distance 2d every channel is a quarter of what it is at d (to the
\* truncation of a channel).
InverseSquareAttenuation ==
  (fn.op \in {"lambert", "spotLightLambert"}) =>
    \A ch \in 1 .. 3 : Abs(fn.near[ch] - 4 * fn.far[ch]) <= 4

\* C8: spotLightLambert is zero for a point outside the sphere about the
\* aim point of radius coneHeight / 2, and positive for a point inside it
\* whose normal faces the light (for a diffuse colour that is not black).
SpotLightInsideSphereOnly ==
  (fn.op = "spotLightLambert") =>
    /\ (Distance(fn.p, fn.light.aimPoint) > Div(fn.light.coneHeight, 2)) =>
         fn.near = black
    /\ (/\ Distance(fn.p, fn.light.aimPoint) < Div(fn.light.coneHeight, 2)
        /\ UDot(Dir3(0, 1, 0), Normalize(VSub(fn.light.position, fn.p))) > 0
        /\ fn.diffuse \in {lightGray, grey}) =>
         fn.near # black

\* the axes (1 = x, 2 = y, 3 = z) in the plane of normal n
inPlaneAxes(n) == {a \in 1 .. 3 : n[a] = 0}

\* pt is inside the width x height rectangle of the plane o about its
\* position, measured along the two axes in the plane
inRectangle(o, pt) ==
  LET a1 == CHOOSE a \in inPlaneAxes(o.normal) :
              \A b \in inPlaneAxes(o.normal) : a <= b
      a2 == CHOOSE a \in inPlaneAxes(o.normal) :
              \A b \in inPlaneAxes(o.normal) : a >= b
  IN /\ Abs(pt[a1] - o.position[a1]) < Div(o.width, 2)
     /\ Abs(pt[a2] - o.position[a2]) < Div(o.height, 2)

\* C9: Plane::intersect returns true only if the point where the ray meets
\* the infinite plane is inside the rectangle, measured on the plane's two
\* in-plane axes.
PlaneHitInsideRectangle ==
  (fn.op = "intersect" /\ fn.before.kind = "Plane" /\ fn.res.hit) =>
    inRectangle(fn.before, fn.res.point)

\* the cached last intersection point of a primitive
cachedPoint(o) == IF o.kind = "Plane" THEN o.planePoint ELSE o.intersectionPoint

\* C10: intersect changes no field of the primitive but its cached
\* intersection points, and a call that returns false leaves the cache as
\* it was: after a call that returned true and calls that returned false,
\* the cache still holds the point of the one that returned true.
IntersectKeepsFields ==
  (fn.op = "intersect") =>
    /\ [fn.obj EXCEPT !.intersectionPoint = fn.before.intersectionPoint,
                      !.planePoint = fn.before.planePoint] = fn.before
    /\ ~fn.res.hit =>
         /\ cachedPoint(fn.obj) = cachedPoint(fn.before)
         /\ fn.good # <<>> => cachedPoint(fn.obj) = fn.good[1]

\* the colour of the cell (i, j) in the scene, lights and spotlights built,
\* with nothing left by another pixel
colourAlone(i, j, built) ==
  tracePixel(getRay(pixelU(i), pixelV(j)),
             [scene |-> built.scene, light |-> built.light,
              spotLights |-> built.spotLights, closestIndex |-> 0,
              background |-> TRUE, blocked |-> FALSE]).colour

\* C11: the colour the pixel body computes for a cell depends only on the
\* scene, lights and camera and on the cell: whatever pixels ran before it,
\* in whatever order, and whatever they left in closestIndex, background,
\* blocked and the primitives' cached points and normals, it is the colour
\* the body computes for that cell alone.
PixelOrderUnobservable ==
  (fn.op = "pixel") =>
    last.colour = colourAlone(last.i, last.j, fn.built)

\* a ground pixel shaded after a pixel that saw the sphere, which left its
\* index in closestIndex and its points in the primitives
ShadedAfterOtherPixel ==
  /\ fn.op = "pixel"
  /\ fn.before.written
  /\ fn.before.closestIndex = 1
  /\ ~fn.before.background
  /\ last.shaded /\ last.visible = "Plane" /\ last.colour # black

\* C12: after setup and any presses of UP, DOWN, RIGHT and 'c' between
\* calls of draw, every angle[i], and the angle of every spotlight draw
\* built from it, is strictly between 0 and 90 degrees, and the intensity
\* of every light and spotlight is at least 0.
AngleAndIntensityInRange ==
  /\ \A i \in 1 .. Len(angle) : 0 < angle[i] /\ angle[i] < 90 * AS
  /\ \A i \in 1 .. Len(spotLights) :
       /\ 0 < spotLights[i].angle1 /\ spotLights[i].angle1 < 90 * AS
       /\ spotLights[i].intensity >= 0
  /\ \A i \in 1 .. Len(light) : light[i].intensity >= 0

\* the subsequence of the lights ls whose record in recs is not blocked
RECURSIVE unblockedOf(_, _)
unblockedOf(ls, recs) ==
  IF ls = <<>> THEN <<>>
  ELSE (IF recs[1].blocked THEN <<>> ELSE <<ls[1]>>) \o
       unblockedOf(Tail(ls), Tail(recs))

\* C13: shade decides the occlusion of each point light by itself: the
\* decision and the contribution of a light are those of a call with that
\* light alone, a blocked light contributes nothing, the colour is the one
\* of a call without the blocked lights, and every spotlight contributes
\* its spotLightLambert term whatever is blocked.
OcclusionPerLight ==
  (fn.op = "shade" /\ fn.out.shaded) =>
    /\ Len(fn.out.lights) = Len(fn.light)
    /\ \A i \in 1 .. Len(fn.light) :
         /\ fn.out.lights[i].blocked =
              tracePixel(fn.ray, shadeEnv(<<fn.light[i]>>)).lights[1].blocked
         /\ fn.out.lights[i].contribution =
              tracePixel(fn.ray,
                         shadeEnv(<<fn.light[i]>>)).lights[1].contribution
         /\ fn.out.lights[i].blocked =>
              fn.out.lights[i].contribution = black
    /\ fn.out.colour =
         tracePixel(fn.ray,
                    shadeEnv(unblockedOf(fn.light, fn.out.lights))).colour
    /\ fn.out.spots =
         <<spotLightLambert(fn.out.p, fn.out.norm, fn.out.diffuse,
                            fn.out.close, fn.ray, theSpotLight)>>

\* a ground point in the shadow the blue sphere casts for the first of two
\* lights and lit by the second
FirstLightBlockedOnly ==
  /\ fn.op = "shade" /\ fn.out.shaded /\ Len(fn.light) = 2
  /\ fn.out.lights[1].blocked /\ fn.out.lights[1].casts > 0
  /\ ~fn.out.lights[2].blocked
  /\ fn.out.lights[2].contribution # black

\* C14: in every state reached from setup by calls of draw and presses of
\* 't', no read of scene in rayTrace or shade is past its end (closestIndex,
\* the indices 0 and 1 of shade, the occluder index j); shade is called
\* only while scene holds at least 2 primitives, and closestIndex then names
\* a primitive the pixel's ray hit.
SceneIndicesInRange ==
  (last.i >= 0) =>
    /\ ~last.oob
    /\ Len(last.hits) \in {0, Len(scene)}
    /\ last.shaded =>
         /\ Len(scene) >= planeCount
         /\ last.closestIndex < Len(scene)
         /\ last.hits[last.closestIndex + 1]

\* a shaded pixel of the sphere at index 1, for which shade read scene[0]
\* and scene[1] in its shadow test
SphereShadedInRange ==
  /\ last.i >= 0 /\ last.shaded /\ ~last.oob
  /\ last.closestIndex = 1 /\ Len(scene) = 2
  /\ last.lights # <<>> /\ last.lights[1].tested

====
